---- MODULE Spec2Model ----
(***************************************************************************)
(* A model of scripts/test-remote.js: the client that validates its        *)
(* configuration, probes /health, submits a signed job, polls the job       *)
(* until it is terminal or the deadline passes, and streams the artifact    *)
(* to disk.  One behaviour of the model is one run of testVideoGeneration.  *)
(* Each action is one continuation of the script between two awaits: it     *)
(* takes the response the run is waiting for and runs the code up to the    *)
(* next await (or to process.exit).                                         *)
(*                                                                         *)
(* JavaScript values are tagged tuples (Undefined, Null, Num(n), Str(s));   *)
(* strings that the code takes apart or puts together (URLs, the signed     *)
(* message) are sequences of tokens.                                        *)
(***************************************************************************)
EXTENDS Integers, Sequences, FiniteSets, TLC

VARIABLES
    REMOTE_URL,       \* process.argv[2], a token sequence (<<>>: no argument)
    HMAC_SECRET,      \* process.env.HMAC_SECRET
    pc,               \* the await the run is suspended at, or "exited"
    now,              \* Date.now(), milliseconds
    baseUrl,          \* testVideoGeneration: const baseUrl
    jobId,            \* pollJobStatus: parameter jobId
    startTime,        \* pollJobStatus: const startTime
    lastStatus,       \* pollJobStatus: let lastStatus
    lastProgress,     \* pollJobStatus: let lastProgress
    completedJob,     \* testVideoGeneration: const completedJob
    lastReq,          \* the config of the last HTTP request handed to axios
    sent,             \* kinds of the HTTP requests the last step issued
    nSent,            \* per kind, how many one-shot requests were issued
    outcome,          \* per kind of request, how the last one ended
    failure,          \* what axios reported for the signed call that failed
    createResponse,   \* testVideoGeneration: const createResponse
    pollState,        \* "idle", "active", "returned" or "failed"
    pollError,        \* the error pollJobStatus threw
    pollEndedAt,      \* the clock when pollJobStatus returned or threw
    lastResponse,     \* the data of the last status response received
    onlyPending,      \* every status response of the session was pending
    observation,      \* what the last step wrote as progress output
    reports,          \* the terminal reports written, with their exit codes
    fileOpen,         \* fs.createWriteStream(OUTPUT_FILE) was called
    totalBytes,       \* downloadFile: const totalBytes
    downloadedBytes,  \* downloadFile: let downloadedBytes
    fileSize,         \* bytes written to OUTPUT_FILE
    signer,           \* the calls of generateSignature made on its own
    pair,             \* two invocations at once: their sessions, the files
    composer          \* a VideoComposer: its fields and its calls in flight

vars == <<REMOTE_URL, HMAC_SECRET, pc, now, baseUrl, jobId, startTime,
          lastStatus, lastProgress, completedJob, lastReq, sent, nSent,
          outcome, failure, createResponse, pollState, pollError, pollEndedAt,
          lastResponse, onlyPending, observation, reports, fileOpen,
          totalBytes, downloadedBytes, fileSize, signer, pair, composer>>

----------------------------------------------------------------------------
(* Program constants *)

POLL_INTERVAL_MS == 5000

MAX_TIMEOUT_MS == 300000

REQUEST_TIMEOUT_MS == 30000

HEALTH_TIMEOUT_MS == 10000

DOWNLOAD_TIMEOUT_MS == 60000

(* Bounds of the model *)

\* The largest artifact, in bytes, a download delivers.
MaxBytes == 3

\* Response times of the server, in milliseconds, below every per-call timeout.
Latencies == {0, 5000}

\* No timer of the model is set later than this clock.
MaxClock == 400000

\* The most calls of generateSignature a caller makes on its own.
MaxCalls == 3

\* The most seconds that pass while it does.
MaxTicks == 2

\* The most initialize calls, and the most encoder runs, of a VideoComposer
\* in flight at the same time.
MaxPending == 2

----------------------------------------------------------------------------
(* JavaScript values *)

Undefined == <<"undefined">>

Null == <<"null">>

Num(n) == <<"number", n>>

Str(s) == <<"string", s>>

NaN == <<"NaN">>

\* ToBoolean: what `if (v)`, `!v` and `v || w` test.
Truthy(v) == v \notin {Undefined, Null, NaN, Num(0), Str("")}

\* a || b
OrElse(a, b) == IF Truthy(a) THEN a ELSE b

Digit(d) == <<"0", "1", "2", "3", "4", "5", "6", "7", "8", "9">>[d + 1]

\* String(n) and n.toString() of a non-negative integer: its decimal digits.
RECURSIVE NumberToString(_)
NumberToString(n) == IF n < 10 THEN <<Digit(n)>>
               ELSE NumberToString(n \div 10) \o <<Digit(n % 10)>>

----------------------------------------------------------------------------
(* Configuration *)

ValidHosts == {"my-api.railway.app"}

\* What argv[2] may hold: nothing, a host alone, a URL with a trailing
\* slash, a plain URL, and text that is no URL.
Urls == { <<>>,
          <<"my-api.railway.app">>,
          <<"https://", "my-api.railway.app", "/">>,
          <<"https://", "my-api.railway.app">>,
          <<"my api">> }

Secrets == {Undefined, Str(""), Str("s3cret")}

\* url.replace(/\/$/, '')
StripTrailingSlash(url) ==
    IF Len(url) > 0 /\ url[Len(url)] = "/" THEN SubSeq(url, 1, Len(url) - 1)
    ELSE url

\* url.startsWith('http://') || url.startsWith('https://')
HasScheme(url) == Len(url) > 0 /\ url[1] \in {"http://", "https://"}

\* validateUrl up to the parse: slash removed, scheme ensured.
NormalizeUrl(url) ==
    LET u == StripTrailingSlash(url)
    IN  IF HasScheme(u) THEN u ELSE <<"https://">> \o u

\* new URL(url) does not throw.
UrlParses(url) == Len(url) = 2 /\ HasScheme(url) /\ url[2] \in ValidHosts

\* validateUrl throws.
ValidateUrlThrows(url) == url = <<>> \/ ~UrlParses(NormalizeUrl(url))

\* validateUrl's return value.
validateUrl(url) == NormalizeUrl(url)

----------------------------------------------------------------------------
(* Signer *)

\* A request body: an object, as its (key, value) pairs in insertion order.
Object(pairs) == <<"object", pairs>>

\* The escapes JSON.stringify writes inside a string: a quote and a
\* backslash (each a token of its own) get a backslash in front.
Escape(string) ==
    [i \in 1..Len(string) |->
        CASE string[i] = "\"" -> "\\\""
          [] string[i] = "\\" -> "\\\\"
          [] OTHER          -> string[i]]

RECURSIVE JoinPairs(_)
JoinPairs(pairs) ==
    IF pairs = <<>> THEN <<>>
    ELSE LET p == pairs[1]
             one == <<"\"">> \o Escape(p[1]) \o <<"\"", ":", "\"">>
                    \o Escape(p[2]) \o <<"\"">>
         IN  IF Len(pairs) = 1 THEN one
             ELSE one \o <<",">> \o JoinPairs(Tail(pairs))

\* JSON.stringify of null or of an object of string values.
JSONStringify(body) ==
    IF body = Null THEN <<"null">>
    ELSE <<"{">> \o JoinPairs(body[2]) \o <<"}">>

\* crypto.createHmac('sha256', key).update(message).digest('hex'): an ideal
\* MAC, which differs whenever the key or the message differs.
HmacSha256Hex(key, message) == <<"hmac-sha256", key, message>>

\* A signer that leaves the timestamp out of the message.
SignedBodyOnly(timestamp, body) == JSONStringify(body)

\* The message generateSignature signs.
SignedMessage(timestamp, body) ==
    NumberToString(timestamp) \o <<":">> \o JSONStringify(body)

\* A signer that takes the time from the clock, not from its argument.
generateSignatureNow(timestamp, body) ==
    HmacSha256Hex(HMAC_SECRET, SignedMessage(now \div 1000, body))

generateSignature(timestamp, body) ==
    HmacSha256Hex(HMAC_SECRET, SignedMessage(timestamp, body))

\* The calls `signer` records: the arguments and the value returned.
SignerCall(timestamp, body, signature) ==
    [timestamp |-> timestamp, body |-> body, signature |-> signature]

\* Timestamps generateSignature is called with, in seconds.
SignTimestamps == {1, 12, 120}

\* Bodies generateSignature is called with.  The last one holds, inside one
\* string value, the text that separates two properties.
SignBodies ==
    { Object(<<>>),
      Object(<< <<<<"a">>, <<"x">>>> >>),
      Object(<< <<<<"a">>, <<"x">>>>, <<<<"b">>, <<"y">>>> >>),
      Object(<< <<<<"a">>,
                  <<"x", "\"", ",", "\"", "b", "\"", ":", "\"", "y">>>> >>) }

----------------------------------------------------------------------------
(* Authenticated transport *)

\* A transport that reuses the timestamp of the first status request.
StaleTimestamp(clock) == startTime \div 1000

\* Math.floor(Date.now() / 1000)
Timestamp(clock) == clock \div 1000

\* A transport that signs every request.
BodyAlways(body) == TRUE

\* if (body)
BodyProvided(body) == Truthy(body)

\* The config makeAuthenticatedRequest hands to axios at time `clock`.
makeAuthenticatedRequest(method, endpoint, body, clock) ==
    LET timestamp == Timestamp(clock)
        headers == ("Content-Type" :> <<"application/json">>)
                   @@ ("X-Timestamp" :> NumberToString(timestamp))
    IN  [ via     |-> "makeAuthenticatedRequest",
          method  |-> method,
          url     |-> REMOTE_URL \o endpoint,
          timeout |-> REQUEST_TIMEOUT_MS,
          data    |-> IF BodyProvided(body) THEN body ELSE Undefined,
          headers |-> IF BodyProvided(body)
                      THEN headers @@ ("X-Signature" :>
                                         generateSignature(timestamp, body))
                      ELSE headers ]

\* axios.get(`${REMOTE_URL}/health`, { timeout: 10000 })
HealthRequest ==
    [ via     |-> "testHealthEndpoint",
      method  |-> "GET",
      url     |-> REMOTE_URL \o <<"/health">>,
      timeout |-> HEALTH_TIMEOUT_MS,
      data    |-> Undefined,
      headers |-> <<>> ]

\* axios({ method: 'GET', url, responseType: 'stream', timeout: 60000 })
DownloadRequest(url) ==
    [ via     |-> "downloadFile",
      method  |-> "GET",
      url     |-> url,
      timeout |-> DOWNLOAD_TIMEOUT_MS,
      data    |-> Undefined,
      headers |-> <<>> ]

NoRequest ==
    [ via     |-> "none",
      method  |-> "",
      url     |-> <<>>,
      timeout |-> 0,
      data    |-> Undefined,
      headers |-> <<>> ]

\* The body testVideoGeneration submits.
requestBody ==
    Object(<< <<<<"theme">>, <<"dark">>>>,
              <<<<"profileName">>, <<"Claude Code">>>>,
              <<<<"username">>, <<"anthropic">>>>,
              <<<<"tweetBody">>, <<"Testing... URL: ">> \o baseUrl>> >>)

\* How a call of axios can end: a 2xx response, a response with another
\* status, no response, or an error before the request was made.
FailedOutcomes == {"http_error", "no_response", "setup_error"}

\* How the health probe can end: as above, or a 2xx response whose body
\* lacks the worker or jobs object.
HealthOutcomes == {"ok", "ok_malformed", "http_error", "no_response"}

\* A transport that swallows every failure and hands back a response.
ResolvedAlways(result) == TRUE

\* `await axios(config)` returns instead of throwing.
Resolved(result) == result \in {"ok", "ok_malformed"}

\* health.worker.running and health.jobs.pending can be read.
HealthWellFormed(result) == result = "ok"

\* error.response.data: the JSON literal null, a string (an empty or a
\* non-JSON body) or an object with its message and error properties.
ErrorData(kind, message, error) ==
    [kind |-> kind, message |-> message, error |-> error]

NoData == ErrorData("none", Undefined, Undefined)

\* What axios reports of a failed call: the status and the data of the
\* response it received, or the code of the cause when it received none.
NoFailure == [status |-> 0, data |-> NoData, code |-> ""]

\* The responses with a status outside 2xx a call may receive.
ErrorResponses ==
    { [status |-> 500, data |-> ErrorData("null", Undefined, Undefined),
       code |-> "ERR_BAD_RESPONSE"],
      [status |-> 502, data |-> ErrorData("string", Undefined, Undefined),
       code |-> "ERR_BAD_RESPONSE"],
      [status |-> 401, data |-> ErrorData("object", Str("Invalid signature"),
                                          Str("Unauthorized")),
       code |-> "ERR_BAD_REQUEST"],
      [status |-> 500, data |-> ErrorData("object", Undefined,
                                          Str("Internal Server Error")),
       code |-> "ERR_BAD_RESPONSE"],
      [status |-> 404, data |-> ErrorData("object", Undefined, Undefined),
       code |-> "ERR_BAD_REQUEST"] }

\* The cause axios names when the per-call timeout ran out.
TimeoutCause == "ECONNABORTED"

\* The causes for which a request gets no response: the connection was
\* refused, the host did not resolve, the timeout ran out.
NoResponseCauses == {"ECONNREFUSED", "ENOTFOUND", TimeoutCause}

NoResponse(cause) == [status |-> 0, data |-> NoData, code |-> cause]

SetupFailure == [status |-> 0, data |-> NoData, code |-> "ERR_INVALID_URL"]

\* What axios can report of a call that ended as `result` after `lat`
\* milliseconds: only the timeout ends a call at its timeout.
Details(result, lat) ==
    CASE result = "no_response" ->
           IF lat = REQUEST_TIMEOUT_MS THEN {NoResponse(TimeoutCause)}
           ELSE {NoResponse(c) : c \in NoResponseCauses \ {TimeoutCause}}
      [] lat = REQUEST_TIMEOUT_MS -> {}
      [] result = "http_error" -> ErrorResponses
      [] result = "setup_error" -> {SetupFailure}
      [] OTHER -> {NoFailure}

\* Reading a property of error.response.data throws a TypeError.
PropertyThrows(data) == data.kind = "null"

\* data.message || data.error || 'Unknown error'
ErrorMessage(data) ==
    OrElse(OrElse(data.message, data.error), Str("Unknown error"))

\* The Error makeAuthenticatedRequest throws for a failed call: the catch
\* block builds it from error.response, else error.request, else the
\* message, and throws a TypeError itself where it cannot read the data.
TransportError(result, detail) ==
    CASE result = "http_error" ->
           IF PropertyThrows(detail.data)
           THEN [type |-> "TypeError", reason |-> Undefined]
           ELSE [type   |-> "API Error",
                 status |-> detail.status,
                 reason |-> ErrorMessage(detail.data)]
      [] result = "no_response" ->
           [type   |-> "Network Error",
            reason |-> Str("No response from server. Is the API accessible?")]
      [] OTHER ->
           [type |-> "Request Error", reason |-> Str(detail.code)]

\* The Error testHealthEndpoint throws for a failed probe.
HealthError(result) ==
    [ type   |-> IF result = "http_error" THEN "Health check failed with status"
                 ELSE "Health check failed",
      reason |-> Undefined ]

----------------------------------------------------------------------------
(* The job service, as the client sees it *)

JobIds == {"job-1", "job-2"}

DownloadUrls == { <<"https://", "cdn.example", "/videos/job.mp4">>,
                  <<"https://", "cdn.example", "/videos/other.mp4">> }

Job(status, progress, currentStep, error, downloadUrl) ==
    [ status      |-> Str(status),
      progress    |-> progress,
      currentStep |-> currentStep,
      error       |-> error,
      downloadUrl |-> downloadUrl ]

\* The data a status response may carry.  The server is not assumed to be
\* well behaved: any of these may follow any other.
Jobs ==
    { Job("pending", p, Undefined, Undefined, Undefined) :
        p \in {Undefined, Num(0)} }
    \cup
    { Job("processing", x[1], x[2], Undefined, Undefined) :
        x \in {Undefined, Num(10), Num(60)} \X {Undefined, Str("Rendering")} }
    \cup
    { Job("completed", Num(100), Undefined, Undefined, u) : u \in DownloadUrls }
    \cup
    { Job("failed", Num(60), Undefined, e, Undefined) :
        e \in {Undefined, Str(""), Str("encode crashed")} }

NoJob == Job("", Undefined, Undefined, Undefined, Undefined)

----------------------------------------------------------------------------
(* Job poller: the pieces of pollJobStatus *)

\* A loop that polls again at once.
NoSleep(clock) == clock

\* A loop that always asks for the first job.
StatusEndpointFirst(id) == <<"/job/", "job-1">>

\* A deadline check that allows one interval more.
DeadlineExceededLate(clock, start) ==
    clock - start > MAX_TIMEOUT_MS + POLL_INTERVAL_MS

\* A deadline check that counts the coming sleep in.
DeadlineExceededEarly(clock, start) ==
    clock - start + POLL_INTERVAL_MS > MAX_TIMEOUT_MS

\* A poller without a deadline.
DeadlineNever(clock, start) == FALSE

\* Date.now() - startTime > MAX_TIMEOUT_MS
DeadlineExceeded(clock, start) == clock - start > MAX_TIMEOUT_MS

TimeoutError == [type |-> "Timeout", reason |-> Undefined]

\* job.status !== lastStatus || job.progress !== lastProgress
ProgressChanged(job, status, progress) ==
    job.status # status \/ job.progress # progress

NoObservation == [kind |-> "none"]

\* What the poller writes for a response whose status or progress changed.
ProgressOutput(job) ==
    IF job.status = Str("processing") /\ Truthy(job.currentStep)
    THEN [ kind     |-> "logProgress",
           status   |-> job.status,
           step     |-> job.currentStep,
           progress |-> OrElse(job.progress, Num(0)) ]
    ELSE IF job.status = Str("pending")
    THEN [ kind |-> "logInfo", status |-> job.status ]
    ELSE NoObservation

\* lastStatus after a response was handled.
NextLastStatus(job, status, progress) ==
    IF ProgressChanged(job, status, progress) THEN job.status ELSE status

\* A poller that never records the progress it has shown.
KeepLastProgress(job, status, progress) == progress

\* lastProgress after a response was handled.
NextLastProgress(job, status, progress) ==
    IF ProgressChanged(job, status, progress) THEN job.progress ELSE progress

\* job.status === 'completed'
IsCompleted(job) == job.status = Str("completed")

\* job.status === 'failed'
IsFailed(job) == job.status = Str("failed")

\* A poller that drops the cause the service reported.
JobFailedGeneric(job) ==
    [type |-> "Job failed", reason |-> Str("Unknown error")]

\* new Error(`Job failed: ${job.error || 'Unknown error'}`)
JobFailedError(job) ==
    [type |-> "Job failed", reason |-> OrElse(job.error, Str("Unknown error"))]

\* A poller that returns the job with the progress it had observed before.
StaleResult(job) == [job EXCEPT !.progress = lastProgress]

\* return job
PollResult(job) == job

\* The clock when the timer of POLL_INTERVAL_MS fires.
AfterSleep(clock) == clock + POLL_INTERVAL_MS

\* The path of the status request of job `id`.
StatusEndpoint(id) == <<"/job/", id>>

----------------------------------------------------------------------------
(* Streaming fetcher: the pieces of downloadFile *)

\* The Content-Length a download response may announce.
ContentLengths == {Undefined} \cup {Num(n) : n \in 1..MaxBytes}

\* parseInt(response.headers['content-length'], 10)
ParseInt(header) == IF header = Undefined THEN NaN ELSE header

\* A counter that keeps the length of the last chunk.
LastChunk(downloaded, n) == n

\* downloadedBytes += chunk.length
AddChunk(downloaded, n) == downloaded + n

\* fs.statSync(outputPath).size
StatSize == fileSize

\* Math.round((downloadedBytes / totalBytes) * 100)
Percentage(downloaded, total) == (200 * downloaded + total) \div (2 * total)

\* What the 'data' handler writes after a chunk.
DownloadOutput(downloaded, total) ==
    IF Truthy(total)
    THEN [ kind     |-> "logProgress",
           status   |-> Str("downloading"),
           step     |-> Str("Downloading video"),
           progress |-> Num(Percentage(downloaded, total[2])) ]
    ELSE NoObservation

----------------------------------------------------------------------------
(* Two invocations of testVideoGeneration at the same time *)

Invocations == {1, 2}

\* path.join(__dirname, '..', 'test-output-remote.mp4')
OUTPUT_FILE == <<"scripts", "..", "test-output-remote.mp4">>

\* The path invocation i hands to downloadFile: OUTPUT_FILE, whoever calls.
Destination(i) == OUTPUT_FILE

\* The locals of pollJobStatus and downloadFile of one invocation, and the
\* size downloadFile returned.
NewInvocation ==
    [ pc              |-> "polling",
      lastStatus      |-> Null,
      lastProgress    |-> Num(0),
      totalBytes      |-> NaN,
      downloadedBytes |-> 0,
      size            |-> 0 ]

\* Both invocations are about to poll; no file is written yet.  `actor` is
\* the invocation that took the last step; a file is the sequence of its
\* bytes, each byte named by the invocation that wrote it (0: a hole).
PairStart ==
    [ actor |-> 0,
      inv   |-> [i \in Invocations |-> NewInvocation],
      files |-> [path \in {OUTPUT_FILE} |-> <<>>] ]

\* A writer opened with createWriteStream writes at its own offset.
WriteAt(content, offset, n, writer) ==
    [p \in 1..(IF Len(content) > offset + n THEN Len(content) ELSE offset + n)
       |-> IF p > offset /\ p <= offset + n THEN writer
           ELSE IF p <= Len(content) THEN content[p]
           ELSE 0]

----------------------------------------------------------------------------
(* VideoComposer *)

\* What FFmpegDetector.detectOrThrow() resolves with; it may also throw.
DetectorPaths == {"ffmpeg", "/usr/bin/ffmpeg", "/opt/ffmpeg/bin/ffmpeg"}

\* What the last step of the composer was: the method or continuation that
\* ran, whether it called the detector, whether it started the encoder, and
\* how it ended.
ComposerEvent(op, detect, encoder, result) ==
    [op |-> op, detect |-> detect, encoder |-> encoder, result |-> result]

\* constructor(): the fields, no call in flight, no encoder running.
\* `detected` records that a call of the detector has resolved.
NewComposer ==
    [ ffmpegPath  |-> Null,
      initialized |-> FALSE,
      pending     |-> 0,
      running     |-> 0,
      detected    |-> FALSE,
      last        |-> ComposerEvent("constructor", FALSE, FALSE, "returned") ]

\* The arguments compose is called with: the three paths, and the duration
\* option in tenths of a second (the other options keep their defaults).
ComposePaths == {Str("shot.png"), Str(""), Undefined}

ComposeDurations == {Undefined, Num(450), Num(5), Num(40000), Str("45")}

\* !path || typeof path !== 'string'
InvalidPath(path) == ~Truthy(path) \/ path[1] # "string"

\* options.duration ?? 45, in tenths of a second
DurationOrDefault(duration) ==
    IF duration \in {Undefined, Null} THEN Num(450) ELSE duration

\* _validateNumericOptions throws: with the default fades of 0.5 s the
\* duration must be a number from 0.1 to 3600 that holds both fades.
InvalidOptions(duration) ==
    \/ duration[1] # "number"
    \/ duration[2] < 1 \/ duration[2] > 36000
    \/ 5 > duration[2]
    \/ 5 + 5 > duration[2]

\* An initialize that sets initialized whatever the detector did.
AfterDetectEager(c, result) ==
    [c EXCEPT !.initialized = TRUE]

\* initialize after `await FFmpegDetector.detectOrThrow()`: the fields when
\* the detector resolved with a path, or threw.
AfterDetect(c, result) ==
    IF result = "throws" THEN c
    ELSE [c EXCEPT !.ffmpegPath = Str(result), !.initialized = TRUE]

\* if (!this.initialized)
NotReady(c) == ~c.initialized

----------------------------------------------------------------------------
(* Orchestrator: testVideoGeneration *)

\* createResponse before the submission returned.
NoCreateResponse == [jobId |-> ""]

NoError == [type |-> "", reason |-> Undefined]

Report(banner, exit, error) == [banner |-> banner, exit |-> exit, error |-> error]

\* if (!REMOTE_URL) { usage; process.exit(1) }
UsageExit ==
    /\ reports' = Append(reports, Report("Error: No URL provided", 1, NoError))
    /\ pc' = "exited"

\* A catch block that ends the process without writing the report.
CatchSilently(error) ==
    /\ reports' = reports
    /\ pc' = "exited"

\* catch (error) { ...; process.exit(1) }
Catch(error) ==
    /\ reports' = Append(reports, Report("Remote Test Failed", 1, error))
    /\ pc' = "exited"

\* The summary and process.exit(0).
SuccessExit ==
    /\ reports' = Append(reports, [ banner |-> "Remote Test Completed Successfully!",
                                    exit   |-> 0,
                                    error  |-> NoError,
                                    size   |-> StatSize ])
    /\ pc' = "exited"

Count(kind) == [nSent EXCEPT ![kind] = @ + 1]

Ended(kind, result) == [outcome EXCEPT ![kind] = result]

config == <<REMOTE_URL, HMAC_SECRET, signer, pair, composer>>

session == <<jobId, startTime, lastStatus, lastProgress>>

pollGhost == <<pollState, pollError, pollEndedAt, lastResponse, onlyPending>>

download == <<fileOpen, totalBytes, downloadedBytes, fileSize>>

Init ==
    /\ REMOTE_URL \in Urls
    /\ HMAC_SECRET \in Secrets
    /\ pc = "start"
    /\ now = 1700
    /\ baseUrl = <<>>
    /\ jobId = ""
    /\ startTime = 0
    /\ lastStatus = Null
    /\ lastProgress = Num(0)
    /\ completedJob = NoJob
    /\ lastReq = NoRequest
    /\ sent = {}
    /\ nSent = [k \in {"health", "submit", "download"} |-> 0]
    /\ outcome = [k \in {"health", "submit", "status", "download", "stream"}
                    |-> "none"]
    /\ failure = NoFailure
    /\ createResponse = NoCreateResponse
    /\ pollState = "idle"
    /\ pollError = NoError
    /\ pollEndedAt = 0
    /\ lastResponse = NoJob
    /\ onlyPending = TRUE
    /\ observation = NoObservation
    /\ reports = <<>>
    /\ fileOpen = FALSE
    /\ totalBytes = NaN
    /\ downloadedBytes = 0
    /\ fileSize = 0
    /\ signer = <<>>
    /\ pair = PairStart
    /\ composer = NewComposer

\* A secret check that takes the empty string for a secret.
SecretUnset == HMAC_SECRET = Undefined

\* if (!HMAC_SECRET)
SecretMissing == ~Truthy(HMAC_SECRET)

\* testVideoGeneration from its first line to `await testHealthEndpoint()`:
\* the URL and the secret are validated, then the health probe is sent.
Start ==
    /\ pc = "start"
    /\ observation' = NoObservation
    /\ UNCHANGED <<config, now, session, completedJob, outcome, failure,
                   createResponse, pollGhost, download>>
    /\ IF REMOTE_URL = <<>>
       THEN /\ UsageExit
            /\ UNCHANGED <<baseUrl, lastReq, nSent>>
            /\ sent' = {}
       ELSE IF ValidateUrlThrows(REMOTE_URL)
       THEN /\ Catch([type |-> "Invalid URL format", reason |-> Undefined])
            /\ UNCHANGED <<baseUrl, lastReq, nSent>>
            /\ sent' = {}
       ELSE IF SecretMissing
       THEN /\ baseUrl' = validateUrl(REMOTE_URL)
            /\ Catch([type |-> "HMAC_SECRET not found", reason |-> Undefined])
            /\ UNCHANGED <<lastReq, nSent>>
            /\ sent' = {}
       ELSE /\ baseUrl' = validateUrl(REMOTE_URL)
            /\ lastReq' = HealthRequest
            /\ sent' = {"health"}
            /\ nSent' = Count("health")
            /\ pc' = "health"
            /\ UNCHANGED reports

\* The health probe ends.  A 2xx response is logged field by field (which
\* throws on a body without worker or jobs) and the signed submission is sent.
HealthReturn ==
    /\ pc = "health"
    /\ observation' = NoObservation
    /\ UNCHANGED <<config, baseUrl, session, completedJob, failure,
                   createResponse, pollGhost, download>>
    /\ \E lat \in Latencies, result \in HealthOutcomes :
         /\ now' = now + lat
         /\ outcome' = Ended("health", result)
         /\ IF ~Resolved(result)
            THEN /\ Catch(HealthError(result))
                 /\ sent' = {}
                 /\ UNCHANGED <<lastReq, nSent>>
            ELSE IF ~HealthWellFormed(result)
            THEN /\ Catch([type |-> "TypeError", reason |-> Undefined])
                 /\ sent' = {}
                 /\ UNCHANGED <<lastReq, nSent>>
            ELSE /\ lastReq' = makeAuthenticatedRequest(
                        "POST", <<"/generate-video">>, requestBody, now')
                 /\ sent' = {"submit"}
                 /\ nSent' = Count("submit")
                 /\ pc' = "submit"
                 /\ UNCHANGED reports

\* The head of the loop of pollJobStatus at time `clock`: the deadline check,
\* then the status request.
LoopHead(clock, start, id) ==
    IF DeadlineExceeded(clock, start)
    THEN /\ pollState' = "failed"
         /\ pollError' = TimeoutError
         /\ pollEndedAt' = clock
         /\ Catch(TimeoutError)
         /\ sent' = {}
         /\ UNCHANGED lastReq
    ELSE /\ pollState' = "active"
         /\ lastReq' = makeAuthenticatedRequest(
                          "GET", StatusEndpoint(id), Null, clock)
         /\ sent' = {"status"}
         /\ pc' = "poll_wait"
         /\ UNCHANGED <<pollError, pollEndedAt, reports>>

\* A submission that is sent again, up to twice, when it fails.
SubmitReturnRetrying ==
    /\ pc = "submit"
    /\ nSent["submit"] < 3
    /\ observation' = NoObservation
    /\ \E lat \in Latencies, result \in FailedOutcomes :
       \E detail \in Details(result, lat) :
         /\ now' = now + lat
         /\ outcome' = Ended("submit", result)
         /\ failure' = detail
    /\ lastReq' = makeAuthenticatedRequest(
           "POST", <<"/generate-video">>, requestBody, now')
    /\ sent' = {"submit"}
    /\ nSent' = Count("submit")
    /\ UNCHANGED <<config, pc, baseUrl, session, completedJob, createResponse,
                   pollGhost, reports, download>>

\* The submission ends.  On a 2xx response pollJobStatus(createResponse.jobId)
\* starts: its locals are set and its first iteration sends a status request.
SubmitReturn ==
    /\ pc = "submit"
    /\ observation' = NoObservation
    /\ UNCHANGED <<config, baseUrl, completedJob, nSent, lastResponse,
                   onlyPending, download>>
    /\ \E lat \in Latencies \cup {REQUEST_TIMEOUT_MS},
          result \in {"ok"} \cup FailedOutcomes :
       \E detail \in Details(result, lat) :
         /\ now' = now + lat
         /\ outcome' = Ended("submit", result)
         /\ failure' = detail
         /\ IF Resolved(result)
            THEN \E id \in JobIds :
                   /\ createResponse' = [jobId |-> id]
                   /\ jobId' = id
                   /\ startTime' = now'
                   /\ lastStatus' = Null
                   /\ lastProgress' = Num(0)
                   /\ LoopHead(now', now', id)
            ELSE /\ Catch(TransportError(result, detail))
                 /\ sent' = {}
                 /\ UNCHANGED <<createResponse, session, lastReq,
                                pollState, pollError, pollEndedAt>>

\* A status response `job` is handled at time `clock`: progress output, then
\* return (and the download request of the caller), throw, or sleep.
HandleStatus(job, clock) ==
    /\ lastResponse' = job
    /\ onlyPending' = (onlyPending /\ job.status = Str("pending"))
    /\ observation' = IF ProgressChanged(job, lastStatus, lastProgress)
                      THEN ProgressOutput(job) ELSE NoObservation
    /\ lastStatus' = NextLastStatus(job, lastStatus, lastProgress)
    /\ lastProgress' = NextLastProgress(job, lastStatus, lastProgress)
    /\ IF IsCompleted(job)
       THEN /\ completedJob' = PollResult(job)
            /\ pollState' = "returned"
            /\ pollEndedAt' = clock
            /\ lastReq' = DownloadRequest(completedJob'.downloadUrl)
            /\ sent' = {"download"}
            /\ nSent' = Count("download")
            /\ pc' = "download"
            /\ UNCHANGED <<pollError, reports>>
       ELSE IF IsFailed(job)
       THEN /\ pollState' = "failed"
            /\ pollError' = JobFailedError(job)
            /\ pollEndedAt' = clock
            /\ Catch(JobFailedError(job))
            /\ sent' = {}
            /\ UNCHANGED <<completedJob, lastReq, nSent>>
       ELSE /\ pc' = "poll_sleep"
            /\ sent' = {}
            /\ UNCHANGED <<completedJob, lastReq, nSent, pollState, pollError,
                           pollEndedAt, reports>>

\* A poller that sends a failed status request again at once.
PollReturnRetrying ==
    /\ pc = "poll_wait"
    /\ now <= MaxClock
    /\ observation' = NoObservation
    /\ \E lat \in Latencies, result \in FailedOutcomes :
       \E detail \in Details(result, lat) :
         /\ now' = now + lat
         /\ outcome' = Ended("status", result)
         /\ failure' = detail
    /\ lastReq' = makeAuthenticatedRequest(
           "GET", StatusEndpoint(jobId), Null, now')
    /\ sent' = {"status"}
    /\ UNCHANGED <<config, pc, baseUrl, session, completedJob, nSent,
                   createResponse, pollGhost, reports, download>>

\* The status request ends: with a job, or with the error
\* makeAuthenticatedRequest throws, which pollJobStatus does not catch.  A
\* call that got no response may have run into its timeout.
PollReturn ==
    /\ pc = "poll_wait"
    /\ UNCHANGED <<config, baseUrl, jobId, startTime, createResponse, download>>
    /\ \E lat \in Latencies \cup {REQUEST_TIMEOUT_MS},
          result \in {"ok"} \cup FailedOutcomes :
       \E detail \in Details(result, lat) :
         /\ now' = now + lat
         /\ outcome' = Ended("status", result)
         /\ failure' = detail
         /\ IF Resolved(result)
            THEN \E job \in Jobs : HandleStatus(job, now')
            ELSE /\ pollState' = "failed"
                 /\ pollError' = TransportError(result, detail)
                 /\ pollEndedAt' = now'
                 /\ Catch(TransportError(result, detail))
                 /\ sent' = {}
                 /\ observation' = NoObservation
                 /\ UNCHANGED <<lastStatus, lastProgress, completedJob, lastReq,
                                nSent, lastResponse, onlyPending>>

\* The timer of the sleep fires and the next iteration starts.
PollWake ==
    /\ pc = "poll_sleep"
    /\ now <= MaxClock
    /\ observation' = NoObservation
    /\ now' = AfterSleep(now)
    /\ LoopHead(now', startTime, jobId)
    /\ UNCHANGED <<config, baseUrl, session, completedJob, nSent, outcome,
                   failure, createResponse, lastResponse, onlyPending,
                   download>>

\* The download request ends: with the response headers, after which the
\* destination is opened and the stream piped into it, or with an error.
DownloadReturn ==
    /\ pc = "download"
    /\ observation' = NoObservation
    /\ sent' = {}
    /\ UNCHANGED <<config, baseUrl, session, completedJob, lastReq, nSent,
                   failure, createResponse, pollGhost>>
    /\ \E lat \in Latencies, result \in {"ok"} \cup FailedOutcomes :
         /\ now' = now + lat
         /\ outcome' = Ended("download", result)
         /\ IF Resolved(result)
            THEN \E header \in ContentLengths :
                   /\ fileOpen' = TRUE
                   /\ fileSize' = 0
                   /\ downloadedBytes' = 0
                   /\ totalBytes' = ParseInt(header)
                   /\ pc' = "streaming"
                   /\ UNCHANGED reports
            ELSE /\ Catch([type |-> "AxiosError", reason |-> Undefined])
                 /\ UNCHANGED download

\* The most bytes the response can still deliver: what is left of the
\* announced length, for HTTP ends a body of a declared length at that length.
BytesLeft == (IF Truthy(totalBytes) THEN totalBytes[2] ELSE MaxBytes)
             - fileSize

\* A chunk arrives: the 'data' handler counts it and the pipe writes it.
DownloadData ==
    /\ pc = "streaming"
    /\ sent' = {}
    /\ \E n \in 1..MaxBytes :
         /\ n <= BytesLeft
         /\ downloadedBytes' = AddChunk(downloadedBytes, n)
         /\ fileSize' = fileSize + n
    /\ observation' = DownloadOutput(downloadedBytes', totalBytes)
    /\ UNCHANGED <<config, pc, now, baseUrl, session, completedJob, lastReq,
                   nSent, outcome, failure, createResponse, pollGhost,
                   reports, fileOpen, totalBytes>>

\* The stream ends, the writer finishes, downloadFile resolves with the size
\* of the file and the run reports success.  A response that announced its
\* length emits 'end' only after that many bytes; cut short, it emits 'error'.
DownloadFinish ==
    /\ pc = "streaming"
    /\ BytesLeft = 0 \/ ~Truthy(totalBytes)
    /\ sent' = {}
    /\ observation' = NoObservation
    /\ outcome' = Ended("stream", "ok")
    /\ SuccessExit
    /\ UNCHANGED <<config, now, baseUrl, session, completedJob, lastReq,
                   nSent, failure, createResponse, pollGhost, download>>

\* What makes the copy fail: a socket error on the response stream, the
\* connection closing before the body was complete, a write error.
CopyFailures ==
    {"response stream error", "response stream aborted", "write stream error"}

\* A download whose 'error' handlers resolve with the size of the file.
DownloadFailResolves ==
    /\ pc = "streaming"
    /\ sent' = {}
    /\ observation' = NoObservation
    /\ \E cause \in CopyFailures : outcome' = Ended("stream", cause)
    /\ SuccessExit
    /\ UNCHANGED <<config, now, baseUrl, session, completedJob, lastReq,
                   nSent, failure, createResponse, pollGhost, download>>

\* The response stream or the writer emits 'error': downloadFile rejects.
\* Nothing closes or removes the destination.
DownloadFail ==
    /\ pc = "streaming"
    /\ sent' = {}
    /\ observation' = NoObservation
    /\ \E cause \in CopyFailures :
         /\ outcome' = Ended("stream", cause)
         /\ Catch([type |-> cause, reason |-> Undefined])
    /\ UNCHANGED <<config, now, baseUrl, session, completedJob, lastReq,
                   nSent, failure, createResponse, pollGhost, download>>

Next ==
    \/ Start
    \/ HealthReturn
    \/ SubmitReturn
    \/ PollReturn
    \/ PollWake
    \/ DownloadReturn
    \/ DownloadData
    \/ DownloadFinish
    \/ DownloadFail

Spec == Init /\ [][Next]_vars

\* generateSignature on its own: the module exports it, so a caller may
\* invoke it any number of times, with any arguments, while time passes.
SignInit ==
    /\ Init
    /\ REMOTE_URL = <<"https://", "my-api.railway.app">>
    /\ Truthy(HMAC_SECRET)

\* One call of generateSignature(timestamp, body).
SignCall ==
    /\ Len(signer) < MaxCalls
    /\ \E timestamp \in SignTimestamps, body \in SignBodies :
         signer' = Append(signer, SignerCall(timestamp, body,
                                             generateSignature(timestamp, body)))
    /\ UNCHANGED <<REMOTE_URL, HMAC_SECRET, pc, now, baseUrl, session,
                   completedJob, lastReq, sent, nSent, outcome, failure,
                   createResponse, pollGhost, observation, reports, download,
                   pair, composer>>

\* Time passes between two calls.
SignTick ==
    /\ now < 1700 + 1000 * MaxTicks
    /\ now' = now + 1000
    /\ UNCHANGED <<config, pc, baseUrl, session, completedJob, lastReq, sent,
                   nSent, outcome, failure, createResponse, pollGhost,
                   observation, reports, download>>

SignNext == SignCall \/ SignTick

SignSpec == SignInit /\ [][SignNext]_vars

\* Two invocations of testVideoGeneration run at the same time, each past
\* its submission; their steps interleave in any order.
PairInit ==
    /\ Init
    /\ REMOTE_URL = <<"https://", "my-api.railway.app">>
    /\ HMAC_SECRET = Str("s3cret")

program == <<REMOTE_URL, HMAC_SECRET, pc, now, baseUrl, session, completedJob,
             lastReq, sent, nSent, outcome, failure, createResponse,
             pollGhost, observation, reports, download, signer, composer>>

\* Invocation i handles a status response: it records status and progress
\* and, when the job is completed, calls downloadFile, which opens (and so
\* truncates) its destination.
PairPoll(i) ==
    /\ pair.inv[i].pc = "polling"
    /\ \E job \in Jobs, n \in 1..MaxBytes :
         LET me == pair.inv[i]
             polled == [me EXCEPT
                 !.lastStatus = NextLastStatus(job, me.lastStatus,
                                               me.lastProgress),
                 !.lastProgress = NextLastProgress(job, me.lastStatus,
                                                   me.lastProgress)]
         IN  IF IsCompleted(job)
             THEN pair' = [pair EXCEPT
                      !.actor = i,
                      !.inv[i] = [polled EXCEPT !.pc = "streaming",
                                                !.totalBytes = Num(n),
                                                !.downloadedBytes = 0],
                      !.files[Destination(i)] = <<>>]
             ELSE /\ n = 1
                  /\ pair' = [pair EXCEPT
                        !.actor = i,
                        !.inv[i] = [polled EXCEPT
                            !.pc = IF IsFailed(job) THEN "failed"
                                   ELSE "polling"]]
    /\ UNCHANGED program

\* A chunk arrives at invocation i: it is counted and written.
PairData(i) ==
    /\ pair.inv[i].pc = "streaming"
    /\ \E n \in 1..MaxBytes :
         LET me == pair.inv[i]
         IN  /\ n <= me.totalBytes[2] - me.downloadedBytes
             /\ pair' = [pair EXCEPT
                   !.actor = i,
                   !.inv[i].downloadedBytes = AddChunk(@, n),
                   !.files[Destination(i)] =
                       WriteAt(@, me.downloadedBytes, n, i)]
    /\ UNCHANGED program

\* The stream of invocation i ends: downloadFile resolves with the size of
\* the file at its destination.
PairFinish(i) ==
    /\ pair.inv[i].pc = "streaming"
    /\ pair.inv[i].downloadedBytes = pair.inv[i].totalBytes[2]
    /\ pair' = [pair EXCEPT
          !.actor = i,
          !.inv[i].pc = "done",
          !.inv[i].size = Len(pair.files[Destination(i)])]
    /\ UNCHANGED program

PairNext ==
    \E i \in Invocations : PairPoll(i) \/ PairData(i) \/ PairFinish(i)

PairSpec == PairInit /\ [][PairNext]_vars

\* One VideoComposer, whose methods a caller invokes in any order and
\* without waiting for the promise of the previous call.
ComposerInit ==
    /\ Init
    /\ REMOTE_URL = <<"https://", "my-api.railway.app">>
    /\ HMAC_SECRET = Str("s3cret")

rest == <<REMOTE_URL, HMAC_SECRET, pc, now, baseUrl, session, completedJob,
          lastReq, sent, nSent, outcome, failure, createResponse, pollGhost,
          observation, reports, download, signer, pair>>

\* initialize() up to its await: it returns at once when initialized, else
\* it calls the detector.
Initialize ==
    /\ IF composer.initialized
       THEN composer' = [composer EXCEPT
                !.last = ComposerEvent("initialize", FALSE, FALSE, "returned")]
       ELSE /\ composer.pending < MaxPending
            /\ composer' = [composer EXCEPT
                  !.pending = @ + 1,
                  !.last = ComposerEvent("initialize", TRUE, FALSE, "awaiting")]
    /\ UNCHANGED rest

\* The detector settles and initialize goes on: it stores the path and
\* sets initialized, or it throws.
DetectReturn ==
    /\ composer.pending > 0
    /\ \E result \in DetectorPaths \cup {"throws"} :
         composer' = [AfterDetect(composer, result) EXCEPT
             !.pending = @ - 1,
             !.detected = @ \/ result # "throws",
             !.last = ComposerEvent("detectReturn", FALSE, FALSE,
                         IF result = "throws" THEN "rejected" ELSE "resolved")]
    /\ UNCHANGED rest

\* compose(screenshotPath, audioPath, outputPath, options): the checks, and
\* command.run() when they pass.
Compose ==
    /\ \E screenshotPath \in ComposePaths, audioPath \in ComposePaths,
          outputPath \in ComposePaths, duration \in ComposeDurations :
         LET error ==
               IF NotReady(composer) THEN "VideoComposer not initialized"
               ELSE IF InvalidPath(screenshotPath) THEN "Invalid screenshotPath"
               ELSE IF InvalidPath(audioPath) THEN "Invalid audioPath"
               ELSE IF InvalidPath(outputPath) THEN "Invalid outputPath"
               ELSE IF InvalidOptions(DurationOrDefault(duration))
               THEN "Invalid duration"
               ELSE ""
         IN  IF error # ""
             THEN composer' = [composer EXCEPT
                      !.last = ComposerEvent("compose", FALSE, FALSE, error)]
             ELSE /\ composer.running < MaxPending
                  /\ composer' = [composer EXCEPT
                        !.running = @ + 1,
                        !.last = ComposerEvent("compose", FALSE, TRUE,
                                               "running")]
    /\ UNCHANGED rest

\* The encoder emits 'end' or 'error': the promise of compose settles.
EncoderEnd ==
    /\ composer.running > 0
    /\ \E result \in {"resolved", "rejected"} :
         composer' = [composer EXCEPT
             !.running = @ - 1,
             !.last = ComposerEvent("encoderEnd", FALSE, FALSE, result)]
    /\ UNCHANGED rest

ComposerNext == Initialize \/ DetectReturn \/ Compose \/ EncoderEnd

ComposerSpec == ComposerInit /\ [][ComposerNext]_vars

\* Every request the run awaits ends (axios settles each call within its
\* timeout) and every timer fires.
FairSpec ==
    /\ Spec
    /\ WF_vars(HealthReturn)
    /\ WF_vars(SubmitReturn)
    /\ WF_vars(PollReturn)
    /\ WF_vars(PollWake)

----------------------------------------------------------------------------
(* Properties *)

Failed(kind) == outcome[kind] \notin {"none", "ok"}

ConfigValid == ~ValidateUrlThrows(REMOTE_URL) /\ Truthy(HMAC_SECRET)

\* C1: the steps of a run happen in the order health probe, submission,
\* status polling, download.  The POST is sent only after the health probe
\* succeeded, a status request only after the submission returned, and the
\* download request only after the poller returned a completed job.
StepsInOrder ==
    /\ (nSent["submit"] > 0 \/ "submit" \in sent) => outcome["health"] = "ok"
    /\ (pollState # "idle" \/ "status" \in sent) =>
          /\ outcome["submit"] = "ok"
          /\ nSent["submit"] = 1
    /\ (nSent["download"] > 0 \/ "download" \in sent) =>
          /\ pollState = "returned"
          /\ outcome["status"] = "ok"
          /\ lastResponse.status = Str("completed")
          /\ completedJob.status = Str("completed")

\* C1 witness: a run that went through all four steps and is downloading.
StepsInOrderWitness ==
    /\ pc = "streaming"
    /\ nSent = [k \in {"health", "submit", "download"} |-> 1]

\* Every step of the run succeeded.
AllSucceeded ==
    /\ ConfigValid
    /\ outcome["health"] = "ok"
    /\ outcome["submit"] = "ok"
    /\ outcome["status"] = "ok"
    /\ lastResponse.status = Str("completed")
    /\ outcome["download"] = "ok"
    /\ outcome["stream"] = "ok"

\* C2: a failure of the configuration validation, the health probe, the
\* submission, the poll or the download keeps every later step from sending
\* a request or opening the output file; a run that ended has written exactly
\* one terminal report, the success report with exit code 0 if every step
\* succeeded and a failure report with exit code 1 otherwise.
FailFast ==
    /\ Len(reports) <= 1
    /\ (pc = "exited") <=> (Len(reports) = 1)
    /\ pc = "exited" =>
          /\ sent = {}
          /\ reports[1].exit \in {0, 1}
          /\ reports[1].exit = 0 <=> AllSucceeded
          /\ reports[1].exit = 0 <=>
                reports[1].banner = "Remote Test Completed Successfully!"
    /\ ~ConfigValid =>
          /\ nSent = [k \in {"health", "submit", "download"} |-> 0]
          /\ pollState = "idle"
          /\ ~fileOpen
    /\ Failed("health") =>
          nSent["submit"] = 0 /\ pollState = "idle" /\ nSent["download"] = 0
          /\ ~fileOpen
    /\ Failed("submit") =>
          pollState = "idle" /\ nSent["download"] = 0 /\ ~fileOpen
    /\ (pollState = "failed" \/ Failed("status")) =>
          nSent["download"] = 0 /\ ~fileOpen
    /\ Failed("download") => ~fileOpen

\* C2 witness: a run whose submission failed has ended with the failure
\* report alone.
FailFastWitness ==
    /\ pc = "exited"
    /\ outcome["submit"] = "http_error"
    /\ Len(reports) = 1
    /\ reports[1].exit = 1

\* C3: pollJobStatus returns only on a status response that reports
\* completed, returns as soon as that response is handled, issues no status
\* request afterwards, and returns the job of the last status response.
PollReturnsLatestCompleted ==
    /\ pollState = "returned" =>
          /\ outcome["status"] = "ok"
          /\ lastResponse.status = Str("completed")
          /\ completedJob = lastResponse
          /\ "status" \notin sent
    /\ (outcome["status"] = "ok" /\ lastResponse.status = Str("completed")) =>
          pollState = "returned"
    /\ pollState # "returned" => completedJob = NoJob

\* C3 witness: the poller returned after it had slept at least once, so
\* there were earlier snapshots.
PollReturnsLatestCompletedWitness ==
    /\ pollState = "returned"
    /\ pollEndedAt >= startTime + POLL_INTERVAL_MS

\* The reason pollJobStatus surfaces for a failed job with this error field.
SurfacedReason(error) ==
    IF error \in {Undefined, Str("")} THEN Str("Unknown error") ELSE error

\* C4, as claimed: a status response that reports failed with error E makes
\* pollJobStatus fail with reason E, with no status request afterwards.
JobFailedSurfacesError ==
    (outcome["status"] = "ok" /\ lastResponse.status = Str("failed")
       /\ lastResponse.error # Undefined) =>
        /\ pollState = "failed"
        /\ pollError.type = "Job failed"
        /\ pollError.reason = lastResponse.error
        /\ "status" \notin sent

\* C4, amended: a status response that reports failed makes pollJobStatus
\* fail with the reported error as its reason if that error is a non-empty
\* string, and with "Unknown error" if it is missing or empty; no status
\* request is issued afterwards.
JobFailedSurfacesReason ==
    (outcome["status"] = "ok" /\ lastResponse.status = Str("failed")) =>
        /\ pollState = "failed"
        /\ pc = "exited"
        /\ pollError.type = "Job failed"
        /\ pollError.reason = SurfacedReason(lastResponse.error)
        /\ "status" \notin sent

\* C4 witness: a job that failed with "encode crashed" ended the session
\* with that reason.
JobFailedSurfacesReasonWitness ==
    /\ pollState = "failed"
    /\ lastResponse.error = Str("encode crashed")
    /\ pollError.reason = Str("encode crashed")

\* Milliseconds from the start of the poll session to its end.
Elapsed == pollEndedAt - startTime

\* The session ended and every status request of it was answered: pending.
EndedOnlyPending ==
    /\ pollState \in {"returned", "failed"}
    /\ onlyPending
    /\ ~Failed("status")

\* C5, as claimed: against a server that always answers pending the session
\* fails with Timeout, after the deadline and no later than the deadline plus
\* one poll interval.
TimeoutWithinOneInterval ==
    EndedOnlyPending =>
        /\ pollError = TimeoutError
        /\ Elapsed > MAX_TIMEOUT_MS
        /\ Elapsed <= MAX_TIMEOUT_MS + POLL_INTERVAL_MS

\* C5, amended: against a server that always answers pending the session
\* fails with Timeout, after the deadline and no later than the deadline plus
\* one poll interval plus the per-call timeout that bounds the last status
\* request; Timeout is never raised before the deadline has elapsed.
TimeoutAfterDeadline ==
    /\ EndedOnlyPending =>
        /\ pollError = TimeoutError
        /\ Elapsed > MAX_TIMEOUT_MS
        /\ Elapsed <= MAX_TIMEOUT_MS + POLL_INTERVAL_MS + REQUEST_TIMEOUT_MS
    /\ pollError = TimeoutError =>
        /\ pollState = "failed"
        /\ Elapsed > MAX_TIMEOUT_MS

\* C5 witness: a session of pending answers that timed out later than one
\* poll interval after the deadline.
TimeoutAfterDeadlineWitness ==
    /\ EndedOnlyPending
    /\ pollError = TimeoutError
    /\ Elapsed > MAX_TIMEOUT_MS + POLL_INTERVAL_MS

\* C6: every poll session ends, whatever the server answers, given that
\* every status request ends and every timer fires.
PollSessionEnds ==
    (pollState = "active") ~> (pollState \in {"returned", "failed"})

\* C6 witness: a session whose job never became terminal was ended by the
\* deadline.
PollSessionEndsWitness ==
    /\ pollState = "failed"
    /\ pollError = TimeoutError
    /\ lastResponse.status = Str("processing")

\* C7: a status response whose status or progress differs from the last
\* observed one is followed by a progress observation, whatever its status.
EveryChangeObserved ==
    [][(pc = "poll_wait" /\ outcome'["status"] = "ok"
          /\ (lastResponse'.status # lastStatus
                \/ lastResponse'.progress # lastProgress))
        => observation' # NoObservation]_vars

\* C8: a status response with the status and progress of the previous one
\* emits nothing, and what a response emits describes that response.
RepeatsAreSilent ==
    [][pc = "poll_wait" =>
        /\ (outcome'["status"] = "ok" /\ lastResponse # NoJob
              /\ lastResponse'.status = lastResponse.status
              /\ lastResponse'.progress = lastResponse.progress)
            => observation' = NoObservation
        /\ observation' # NoObservation =>
              /\ outcome'["status"] = "ok"
              /\ observation'.status = lastResponse'.status
              /\ observation'.kind = "logProgress" =>
                    /\ observation'.step = lastResponse'.currentStep
                    /\ observation'.progress \in
                          {lastResponse'.progress, Num(0)}]_vars

\* C8 witness: a processing response with a step label was handled without
\* output, which happens only when it repeats the previous one.
RepeatsAreSilentWitness ==
    /\ pc = "poll_sleep"
    /\ observation = NoObservation
    /\ lastResponse.status = Str("processing")
    /\ Truthy(lastResponse.currentStep)

Signed(request) == "X-Signature" \in DOMAIN request.headers

\* C9: a request of makeAuthenticatedRequest carries X-Signature exactly if
\* it has a body: the submission is signed, status polls are not, and the
\* health probe never is.
SignedIffBody ==
    /\ lastReq.via = "makeAuthenticatedRequest" =>
          /\ Signed(lastReq) <=> lastReq.data # Undefined
          /\ lastReq.method = "POST" =>
                Signed(lastReq) /\ lastReq.data = requestBody
          /\ lastReq.method = "GET" =>
                ~Signed(lastReq) /\ lastReq.data = Undefined
    /\ lastReq.via = "testHealthEndpoint" => ~Signed(lastReq)

\* C9 witness: the signed submission is in flight.
SignedIffBodyWitness ==
    /\ pc = "submit"
    /\ Signed(lastReq)

\* C10: a request of makeAuthenticatedRequest carries the clock of the moment
\* it is sent, and the signature of a signed request is that of the
\* X-Timestamp and the data it carries.
FreshTimestampSignedAsSent ==
    /\ sent \cap {"submit", "status"} # {} =>
          /\ lastReq.via = "makeAuthenticatedRequest"
          /\ lastReq.headers["X-Timestamp"] = NumberToString(now \div 1000)
    /\ (lastReq.via = "makeAuthenticatedRequest" /\ Signed(lastReq)) =>
          lastReq.headers["X-Signature"] =
              HmacSha256Hex(HMAC_SECRET,
                            lastReq.headers["X-Timestamp"] \o <<":">>
                              \o JSONStringify(lastReq.data))

\* C10 witness: a status request is sent in a later second than the first
\* status request of the session.
FreshTimestampSignedAsSentWitness ==
    /\ "status" \in sent
    /\ now \div 1000 > startTime \div 1000

\* The signed call (submission or status request) of the run that failed,
\* by how it ended; "none" when none failed.
SignedCallResult ==
    IF Failed("submit") THEN outcome["submit"]
    ELSE IF Failed("status") THEN outcome["status"]
    ELSE "none"

\* The message wanted of an API error: the structured error field of the body
\* when there is one, else a generic description.
StructuredMessage(data) ==
    IF data.kind = "object" /\ Truthy(data.message) THEN data.message
    ELSE IF data.kind = "object" /\ Truthy(data.error) THEN data.error
    ELSE Str("Unknown error")

\* C11 (as stated): every failed call of makeAuthenticatedRequest is
\* classified.  A call that got no response fails with a Network error; a
\* call that got a response with a status outside 2xx fails with an API
\* error that carries the status and the structured message of the body, or
\* a generic one, whatever the body is.
ClassifiesEveryFailure ==
    (pc = "exited" /\ SignedCallResult # "none") =>
        LET error == reports[1].error
        IN  /\ SignedCallResult = "no_response" => error.type = "Network Error"
            /\ SignedCallResult = "http_error" =>
                  /\ error.type = "API Error"
                  /\ error.status = failure.status
                  /\ error.reason = StructuredMessage(failure.data)

\* C12 (as stated): a signed call that got no response fails with a Network
\* error whose value tells its cause: the error surfaced for the cause of
\* this call is the error of no other cause, so a timeout is told from a
\* refused connection and from a DNS failure.
CauseDistinguishable ==
    (pc = "exited" /\ SignedCallResult = "no_response") =>
        /\ reports[1].error.type = "Network Error"
        /\ \A other \in NoResponseCauses \ {failure.code} :
              TransportError("no_response", NoResponse(other))
                  # reports[1].error

\* C13: nothing is retried.  A run sends the health probe, the submission
\* and the download request at most once each and no step issues two
\* requests; the answer to a status request is never followed by another
\* status request without the sleep of the loop; and a failed submission or
\* a failed download ends the run with a failure report and that one request.
NothingRetried ==
    [][ /\ \A k \in DOMAIN nSent : nSent'[k] <= 1
        /\ Cardinality(sent') <= 1
        /\ pc = "poll_wait" => "status" \notin sent'
        /\ Failed("submit")' =>
              /\ pc' = "exited" /\ sent' = {}
              /\ reports'[1].exit = 1
              /\ nSent'["submit"] = 1 /\ nSent'["download"] = 0
        /\ (Failed("download") \/ Failed("stream"))' =>
              /\ pc' = "exited" /\ sent' = {}
              /\ reports'[1].exit = 1
              /\ nSent'["download"] = 1 ]_vars

\* C13 witness: the download request failed and the run ended.
NothingRetriedWitness ==
    /\ pc = "exited"
    /\ Failed("download")
    /\ nSent["submit"] = 1 /\ nSent["download"] = 1

\* The run was started with a missing or empty secret, or with a missing or
\* malformed URL.
ConfigBroken ==
    \/ HMAC_SECRET \in {Undefined, Str("")}
    \/ REMOTE_URL = <<>>
    \/ ~UrlParses(NormalizeUrl(REMOTE_URL))

\* The reports of a configuration error.
ConfigErrors ==
    { Report("Error: No URL provided", 1, NoError),
      Report("Remote Test Failed", 1,
             [type |-> "Invalid URL format", reason |-> Undefined]),
      Report("Remote Test Failed", 1,
             [type |-> "HMAC_SECRET not found", reason |-> Undefined]) }

\* C14: a run with a broken configuration never sends an HTTP request (no
\* health probe, submission, status request or download), and once it has
\* taken its first step it has ended with a configuration error.
ConfigErrorBeforeNetwork ==
    ConfigBroken =>
        /\ sent = {} /\ lastReq = NoRequest
        /\ \A k \in DOMAIN nSent : nSent[k] = 0
        /\ \A k \in DOMAIN outcome : outcome[k] = "none"
        /\ pollState = "idle" /\ ~fileOpen
        /\ pc \in {"start", "exited"}
        /\ pc = "exited" => reports \in {<<r>> : r \in ConfigErrors}

\* C14 witness: a run with a well-formed URL and an empty secret has ended.
ConfigErrorBeforeNetworkWitness ==
    /\ pc = "exited"
    /\ HMAC_SECRET = Str("")
    /\ UrlParses(NormalizeUrl(REMOTE_URL))

\* The copy failed after the destination was opened.
CopyFailed == Failed("stream")

\* C15 (as stated): after a download that failed during the copy no file
\* is left at the destination: the partial file was removed.  (The program
\* keeps no mark of truncation, so removal is the only way to comply.)
PartialFileRemoved == CopyFailed => ~fileOpen

CountsEndAtLength ==
    [][ (pc = "streaming" /\ Truthy(totalBytes)) =>
          LET N == totalBytes[2]
          IN  /\ pc' = "streaming" =>
                    /\ downloadedBytes' > downloadedBytes
                    /\ downloadedBytes' <= N
                    /\ observation'.kind = "logProgress"
                    /\ observation'.progress
                          = Num((100 * downloadedBytes') \div N)
                          \/ observation'.progress
                          = Num((100 * downloadedBytes') \div N + 1)
                    /\ downloadedBytes' = N => observation'.progress = Num(100)
              /\ outcome'["stream"] = "ok" =>
                    /\ downloadedBytes = N
                    /\ observation.progress = Num(100)
                    /\ fileSize' = N
                    /\ reports'[1].exit = 0
                    /\ reports'[1].size = N ]_vars

\* C17 witness: a download of the largest announced length resolved.
CountsEndAtLengthWitness ==
    /\ pc = "exited"
    /\ outcome["stream"] = "ok"
    /\ totalBytes = Num(MaxBytes)
    /\ downloadedBytes = MaxBytes

\* C18: generateSignature binds both inputs.  Two calls whose timestamps
\* differ, or whose bodies differ, sign different messages and return
\* different signatures.
SignatureBindsInputs ==
    \A i, j \in DOMAIN signer :
        (signer[i].timestamp # signer[j].timestamp
            \/ signer[i].body # signer[j].body) =>
          /\ SignedMessage(signer[i].timestamp, signer[i].body)
                # SignedMessage(signer[j].timestamp, signer[j].body)
          /\ signer[i].signature # signer[j].signature

\* C18 witness: the same timestamp was signed with the body of two
\* properties and with the body whose one value spells them out.
SignatureBindsInputsWitness ==
    /\ Len(signer) >= 2
    /\ signer[1].timestamp = signer[2].timestamp
    /\ Len(signer[1].body[2]) = 2
    /\ Len(signer[2].body[2]) = 1 /\ Len(signer[2].body[2][1][2]) = 9

\* C19: generateSignature is pure.  Two calls with the same timestamp and
\* body returned the same signature, whatever was called and however much
\* time passed in between, and a call changes nothing but the record of
\* the calls.
SignatureIsPure ==
    /\ [](\A i, j \in DOMAIN signer :
            (signer[i].timestamp = signer[j].timestamp
                /\ signer[i].body = signer[j].body) =>
              signer[i].signature = signer[j].signature)
    /\ [][signer' # signer =>
            UNCHANGED <<REMOTE_URL, HMAC_SECRET, pc, now, baseUrl, session,
                        completedJob, lastReq, sent, nSent, outcome, failure,
                        createResponse, pollGhost, observation, reports,
                        download>>]_vars

\* C19 witness: the first and the third call had the same arguments, the
\* second had others, and time passed.
SignatureIsPureWitness ==
    /\ Len(signer) = 3
    /\ signer[1] = signer[3]
    /\ signer[2].timestamp # signer[1].timestamp
    /\ signer[2].body # signer[1].body
    /\ now > 1700

\* The file invocation i writes, once it has opened it.
Artifact(i) == pair.files[Destination(i)]

\* C20 (as stated): two invocations at the same time share nothing.  A step
\* of one invocation leaves the poll state and the byte count of the other
\* as they were, and leaves the file the other has opened as it was.
InvocationsIsolated ==
    [][ \A i \in Invocations :
          pair'.actor # i =>
            /\ pair'.inv[i] = pair.inv[i]
            /\ pair.inv[i].pc \in {"streaming", "done"} =>
                  Artifact(i)' = Artifact(i) ]_vars

\* The URL argument is well formed and validateUrl changes it: it has no
\* scheme, or it ends with a slash.
NeedsNormalizing ==
    /\ ~ValidateUrlThrows(REMOTE_URL)
    /\ ~HasScheme(REMOTE_URL) \/ REMOTE_URL[Len(REMOTE_URL)] = "/"

\* The paths the run requests below its base URL.
Endpoints ==
    {<<"/health">>, <<"/generate-video">>} \cup {<<"/job/", id>> : id \in JobIds}

\* C21 (as stated): when the URL argument needs normalizing, the base URL
\* the run reports is the normalized one, and the health probe, the
\* submission and every status request go to an endpoint below that base URL.
RequestsUseBaseUrl ==
    (NeedsNormalizing
        /\ lastReq.via \in {"testHealthEndpoint", "makeAuthenticatedRequest"}) =>
      /\ baseUrl = NormalizeUrl(REMOTE_URL)
      /\ lastReq.url \in {baseUrl \o e : e \in Endpoints}

Waiting == {Str("pending"), Str("processing")}

\* C22: between two status requests of a session the poller sleeps for the
\* poll interval.  A status request that is not the first of its session is
\* issued by the step that ends a sleep, at least one interval after the
\* previous response was handled, and that response was pending or
\* processing; the poller goes to sleep only after such a response.
SleepsBetweenRequests ==
    [][ /\ ("status" \in sent' /\ pc # "submit") =>
              /\ pc = "poll_sleep"
              /\ now' >= now + POLL_INTERVAL_MS
              /\ lastResponse.status \in Waiting
        /\ pc' = "poll_sleep" =>
              /\ lastResponse'.status \in Waiting
              /\ sent' = {} ]_vars

\* C22 witness: a status request was issued after a sleep that followed a
\* processing response.
SleepsBetweenRequestsWitness ==
    /\ "status" \in sent
    /\ now >= startTime + POLL_INTERVAL_MS
    /\ lastResponse.status = Str("processing")

\* C23: the deadline check precedes every status request.  No status
\* request is issued when more than the deadline has elapsed since the
\* session started, and a session the check ended failed with Timeout in
\* the step of the check, which issued no request and ended the run.
DeadlineCheckedBeforeRequest ==
    [][ /\ "status" \in sent' => now' - startTime' <= MAX_TIMEOUT_MS
        /\ (pc' = "poll_wait" /\ pc # "poll_wait") =>
              now' - startTime' <= MAX_TIMEOUT_MS
        /\ (pc = "poll_sleep" /\ AfterSleep(now) - startTime > MAX_TIMEOUT_MS) =>
              /\ pollError' = TimeoutError
              /\ pollState' = "failed"
              /\ sent' = {} /\ lastReq' = lastReq
              /\ pc' = "exited" ]_vars

\* C23 witness: a status request was issued when exactly the deadline had
\* elapsed.
DeadlineCheckedBeforeRequestWitness ==
    /\ "status" \in sent
    /\ now - startTime = MAX_TIMEOUT_MS

\* The status request got no response, or a response outside 2xx from
\* which the transport built its API error.
StatusCallFailed ==
    \/ outcome["status"] = "no_response"
    \/ outcome["status"] = "http_error" /\ ~PropertyThrows(failure.data)

\* C24: a status request that fails with a Network or an API error ends
\* the poll session with that error.  The session has failed, the run has
\* reported that error and exited, and the failing step issued no request
\* and wrote no progress.
StatusFailureEndsSession ==
    StatusCallFailed =>
        /\ pollState = "failed"
        /\ pollError.type = (IF outcome["status"] = "no_response"
                             THEN "Network Error" ELSE "API Error")
        /\ pollEndedAt = now
        /\ pc = "exited"
        /\ reports = <<Report("Remote Test Failed", 1, pollError)>>
        /\ sent = {}
        /\ observation = NoObservation
        /\ nSent["download"] = 0

\* C24 witness: a status request of a session that had seen a processing
\* response got a 401.
StatusFailureEndsSessionWitness ==
    /\ outcome["status"] = "http_error"
    /\ failure.status = 401
    /\ lastResponse.status = Str("processing")

\* C25: the run polls the job it submitted and downloads what the poller
\* returned.  Every status request is for the jobId of the submission
\* response, the jobId of the session is that one as long as the session
\* lasts, and the download request goes to the downloadUrl of the completed
\* job pollJobStatus returned, which is the last response received.
PollsSubmittedJob ==
    [][ /\ "status" \in sent' =>
              /\ lastReq'.method = "GET"
              /\ lastReq'.url = REMOTE_URL \o <<"/job/", createResponse'.jobId>>
        /\ pollState' # "idle" => jobId' = createResponse'.jobId
        /\ pollState # "idle" =>
              /\ jobId' = jobId
              /\ createResponse' = createResponse
        /\ "download" \in sent' =>
              /\ IsCompleted(completedJob')
              /\ completedJob' = lastResponse'
              /\ lastReq'.via = "downloadFile"
              /\ lastReq'.url = lastResponse'.downloadUrl ]_vars

\* C25 witness: the run got the second job id, at least one interval has
\* passed since polling began, and it requests the second download URL.
PollsSubmittedJobWitness ==
    /\ "download" \in sent
    /\ createResponse.jobId = "job-2"
    /\ now >= startTime + POLL_INTERVAL_MS
    /\ lastReq.url = <<"https://", "cdn.example", "/videos/other.mp4">>

\* An initialize call failed in this step: its detector threw.
InitializeFailed == composer'.last = ComposerEvent("detectReturn", FALSE, FALSE,
                                                  "rejected")

\* What C26 says of every step but of a failed initialize: initialized is
\* true only after a detection succeeded and never goes back to false, an
\* initialize on an initialized composer does not call the detector, and a
\* compose on a composer that is not initialized fails without starting the
\* encoder.
ComposerStep ==
    /\ composer'.initialized => composer'.detected
    /\ composer.initialized => composer'.initialized
    /\ (composer.initialized /\ composer'.last.op = "initialize") =>
          /\ ~composer'.last.detect
          /\ composer'.pending = composer.pending
          /\ composer'.ffmpegPath = composer.ffmpegPath
    /\ (~composer.initialized /\ composer'.last.op = "compose") =>
          /\ composer'.last.result = "VideoComposer not initialized"
          /\ ~composer'.last.encoder
          /\ composer'.running = composer.running

\* C26 (as stated): as above, and a failed initialize leaves initialized
\* false and ffmpegPath unchanged.
ComposerContract ==
    [][ /\ ComposerStep
        /\ InitializeFailed =>
              /\ ~composer'.initialized
              /\ composer'.ffmpegPath = composer.ffmpegPath ]_vars

\* C26: as above, and a failed initialize changes neither initialized nor
\* ffmpegPath: initialized is false after it unless another initialize call
\* has detected the encoder.
ComposerContractOverlapping ==
    [][ /\ ComposerStep
        /\ InitializeFailed =>
              /\ composer'.initialized = composer.initialized
              /\ composer'.ffmpegPath = composer.ffmpegPath
              /\ ~composer.detected => ~composer'.initialized ]_vars

\* C26 witness: of two initialize calls in flight at the same time one
\* detected the encoder and then the other failed.
ComposerContractOverlappingWitness ==
    /\ composer.last.result = "rejected"
    /\ composer.last.op = "detectReturn"
    /\ composer.initialized
    /\ composer.ffmpegPath # Null
    /\ composer.pending = 0

====
